---- MODULE Spec2Model ----
(***************************************************************************)
(* City-block generation (setup_city and the four block generators) and    *)
(* the per-frame car update (move_cars) of bevy_city.                      *)
(*                                                                         *)
(* Numbers: every f32/f64 length, coordinate, time and probability is a    *)
(* fixed-point integer in units of 1/10000 (Unit), so 5.5 is 55000 and     *)
(* 0.75 is 7500.  Angles are whole degrees about the Y axis.               *)
(***************************************************************************)
EXTENDS Integers, Sequences, FiniteSets, TLC

VARIABLES
    pc,                 \* "generating" while setup_city's loop runs, then "running"
    size,               \* the grid radius of setup_city's loop
    x, z,               \* the loop variables of setup_city
    rng,                \* state of the SmallRng stream
    noise,              \* seed of the OpenSimplex instance
    next_entity,        \* next entity id the ECS allocator hands out
    placements,         \* every bundle handed to commands.spawn, in order
    segments,           \* entity id -> RoadSegment component
    cars,               \* entity id -> Car component and its Transform translation
    stats,              \* the SceneStats resource
    settings_move_cars, \* Settings.move_cars
    frame,              \* number of Update schedule runs so far
    time_delta,         \* Time::delta_secs() of the last Update run
    twin,               \* a second, independent run of setup_city (SpecTwin only)
    tick                \* the run of move_cars' loop in progress (SpecOrder only)

vars == <<pc, size, x, z, rng, noise, next_entity, placements, segments, cars,
          stats, settings_move_cars, frame, time_delta, twin, tick>>

---------------------------------------------------------------------------
(* Bounds of the model *)

\* seeds tried: FirstSeed .. FirstSeed + NumSeeds - 1
NumSeeds == 3
\* grid radii tried: 0 .. MaxSize (the code's literal is 20)
MaxSize == 2
\* Update runs per behaviour
MaxTicks == 3
\* entity ids reserved by the other Startup systems before setup_city spawns
MaxForeign == 1
\* RoadSegment entities the host may remove (SpecDespawn only)
MaxDespawned == 1

\* Update schedule runs taken one car at a time
MaxOrderTicks == 2
\* stream states ahead of the current one at which the draws are examined
DrawsAhead == 8

---------------------------------------------------------------------------
(* Program constants *)

Unit == 10000

FirstSeed == 42
RngModulus == 65536

block_width == 55000
block_depth == 40000

noise_scale == 250
rural == 4500
low_density == 6000
medium_density == 7000

car_density == 7500
car_speed == 20000
x_slots == 9
z_slots == 6
x_step == 5500
z_step == 5000

\* the asset pools built by the load_* systems
CarScenes == <<"hatchback-sports", "suv", "suv-luxury", "sedan", "sedan-sports",
               "truck", "truck-flat", "van">>

LowDensityBuildings ==
    [meshes |-> <<"b", "c", "d", "e", "f", "g", "h", "i", "k", "l", "o", "u">>,
     materials |-> <<"colormap", "variation-a", "variation-b", "variation-c">>]

MediumDensityBuildings ==
    [meshes |-> <<"a", "b", "c", "d", "f", "g", "h">>,
     materials |-> <<"colormap", "variation-a", "variation-b">>]

SkyscraperBuildings ==
    [meshes |-> <<"skyscraper-a", "skyscraper-b", "skyscraper-c", "skyscraper-d",
                  "skyscraper-e", "m", "l">>,
     materials |-> <<"colormap", "variation-a", "variation-b">>]

Trees == <<"tree-small", "tree-large">>

\* frame times the Update schedule is run with (0 is Bevy's first frame)
DtSet == {0, 1000, 2250, 2500}

---------------------------------------------------------------------------
(* Vec3 *)

Vec3(a, b, c) == <<a, b, c>>

VAdd(u, v) == <<u[1] + v[1], u[2] + v[2], u[3] + v[3]>>

VSub(u, v) == <<u[1] - v[1], u[2] - v[2], u[3] - v[3]>>

VScale(u, k) == <<u[1] * k, u[2] * k, u[3] * k>>

Abs(n) == IF n < 0 THEN -n ELSE n

\* Vec3::length.  Every vector the program measures lies along one axis,
\* where the Euclidean norm is the absolute value of that component.
VLength(v) == Abs(v[1]) + Abs(v[2]) + Abs(v[3])

\* Vec3::normalize on an axis-aligned vector: components in {-1, 0, 1}.
\* The zero vector has no direction (NaN in the code): modelled as <<0,0,0>>.
VNormalize(v) ==
    IF VLength(v) = 0 THEN <<0, 0, 0>>
    ELSE <<v[1] \div VLength(v), v[2] \div VLength(v), v[3] \div VLength(v)>>

---------------------------------------------------------------------------
(* The random stream (SmallRng) and the noise source (OpenSimplex) *)

SeedFromU64(seed) == (seed * 40503 + 1) % RngModulus

\* one step of the generator
RngStep(s) == (s * 25173 + 13849) % RngModulus

\* rng.random::<f32>(): uniform in [0, 1), in Units; advances the stream once
RandomF32(s) == (RngStep(s) * Unit) \div RngModulus

\* rng.random_range(0..n): uniform in 0 .. n-1; advances the stream once
RandomRange(s, n) == (RngStep(s) * n) \div RngModulus

\* rng.random() as the seed of OpenSimplex::new
RandomU32(s) == RngStep(s)

\* noise.get([px, pz, 0.0]) in [-1, 1] (Units): a fixed function of the noise
\* seed and the sample point.  px, pz are offset * noise_scale, in Unit * Unit.
NoiseGet(nseed, px, pz) ==
    (((nseed \div 1024) * 19 + (px \div 125000) * 11 + (pz \div 125000) * 13) % 21) * 1000
        - Unit

---------------------------------------------------------------------------
(* The world a run of setup_city writes to: the random stream, the entity  *)
(* allocator, the spawned bundles and the SceneStats resource.             *)

NoCar == [road_segment |-> -1, speed |-> 0, distance_traveled |-> 0]

SceneStatsDefault ==
    [cars_spawned |-> 0, low_density_buildings |-> 0, medium_density_buildings |-> 0,
     skyscrapers |-> 0, road_segments |-> 0, trees |-> 0]

\* NewWorld, but seeding the stream from the ids other systems took as well
NewWorld_AmbientSeed(seed, base) ==
    [rng |-> RngStep(SeedFromU64(seed + base)),
     noise |-> RandomU32(SeedFromU64(seed + base)),
     next_entity |-> base,
     placements |-> <<>>,
     segments |-> <<>>,
     cars |-> <<>>,
     stats |-> SceneStatsDefault]

\* the state setup_city starts from: the seeded stream, one draw spent on the
\* noise seed, and the allocator after `base` ids went to other systems
NewWorld(seed, base) ==
    [rng |-> RngStep(SeedFromU64(seed)),
     noise |-> RandomU32(SeedFromU64(seed)),
     next_entity |-> base,
     placements |-> <<>>,
     segments |-> <<>>,
     cars |-> <<>>,
     stats |-> SceneStatsDefault]

\* a bundle of SceneRoot / Mesh3d + MeshMaterial3d, Transform and, for cars, Car
Bundle(kind, mesh, material, translation, rotation, scale, car) ==
    [kind |-> kind, mesh |-> mesh, material |-> material,
     translation |-> translation, rotation |-> rotation, scale |-> scale,
     car |-> car]

ScaleOne == Vec3(Unit, Unit, Unit)

\* commands.spawn(bundle): reserves the next entity id and queues the bundle
Spawn(w, b) ==
    [w EXCEPT !.placements = Append(@, [entity |-> w.next_entity] @@ b),
              !.next_entity = @ + 1]

\* TRUE for every world.  TLC passes operator arguments unevaluated; a loop
\* tests this on its accumulated world so that each iteration is computed
\* before the next one starts, as in the source, instead of all at the end.
Evaluated(w) == w.next_entity >= 0

\* Count, but never counting trees
Count_NoTrees(w, counter) ==
    IF counter = "trees" THEN w ELSE [w EXCEPT !.stats[counter] = @ + 1]

\* stats.<counter> += 1
Count(w, counter) == [w EXCEPT !.stats[counter] = @ + 1]

\* RoadSegment::new taking the direction from end to start
RoadSegmentNew_Backwards(start, end) ==
    [start |-> start, end |-> end,
     direction |-> VNormalize(VSub(start, end)),
     length |-> VLength(VSub(end, start))]

\* RoadSegment::new(start, end)
RoadSegmentNew(start, end) ==
    [start |-> start, end |-> end,
     direction |-> VNormalize(VSub(end, start)),
     length |-> VLength(VSub(end, start))]

\* SpawnSegment with the two endpoints passed in the wrong order
SpawnSegment_Swapped(w, start, end) ==
    [w EXCEPT !.segments = (w.next_entity :> RoadSegmentNew(end, start)) @@ @,
              !.next_entity = @ + 1]

\* commands.spawn(RoadSegment::new(start, end)).id(): the new entity carries
\* the component; its id is the allocator's value before the call
SpawnSegment(w, start, end) ==
    [w EXCEPT !.segments = (w.next_entity :> RoadSegmentNew(start, end)) @@ @,
              !.next_entity = @ + 1]

\* RoadsAndCarsAssets::random_car: index of the chosen scene (0-based)
RandomCar(s) == RandomRange(s, Len(CarScenes))

\* MaybeSpawnCar counting every slot, with or without a car
MaybeSpawnCar_CountSlots(w, segment, translation, rotation, distance) ==
    LET draw == RandomF32(w.rng)
        w1 == [w EXCEPT !.rng = RngStep(@)]
    IN  IF draw > car_density
        THEN LET scene == RandomCar(w1.rng)
                 w2 == [w1 EXCEPT !.rng = RngStep(@)]
                 car == [road_segment |-> segment, speed |-> car_speed,
                         distance_traveled |-> distance]
                 w3 == Spawn(w2, Bundle("car", CarScenes[scene + 1], "scene",
                                        translation, rotation,
                                        Vec3(1500, 1500, 1500), car))
                 w4 == [w3 EXCEPT !.cars =
                            (w2.next_entity :> (car @@ [translation |-> translation])) @@ @]
             IN  Count(w4, "cars_spawned")
        ELSE Count(w1, "cars_spawned")

\* MaybeSpawnCar spawning when the draw is below car_density
MaybeSpawnCar_Below(w, segment, translation, rotation, distance) ==
    LET draw == RandomF32(w.rng)
        w1 == [w EXCEPT !.rng = RngStep(@)]
    IN  IF draw < car_density
        THEN LET scene == RandomCar(w1.rng)
                 w2 == [w1 EXCEPT !.rng = RngStep(@)]
                 car == [road_segment |-> segment, speed |-> car_speed,
                         distance_traveled |-> distance]
                 w3 == Spawn(w2, Bundle("car", CarScenes[scene + 1], "scene",
                                        translation, rotation,
                                        Vec3(1500, 1500, 1500), car))
                 w4 == [w3 EXCEPT !.cars =
                            (w2.next_entity :> (car @@ [translation |-> translation])) @@ @]
             IN  Count(w4, "cars_spawned")
        ELSE w1

\* one `if rng.random::<f32>() > car_density { commands.spawn((.., Car {..})) }`
MaybeSpawnCar(w, segment, translation, rotation, distance) ==
    LET draw == RandomF32(w.rng)
        w1 == [w EXCEPT !.rng = RngStep(@)]
    IN  IF draw > car_density
        THEN LET scene == RandomCar(w1.rng)
                 w2 == [w1 EXCEPT !.rng = RngStep(@)]
                 car == [road_segment |-> segment, speed |-> car_speed,
                         distance_traveled |-> distance]
                 w3 == Spawn(w2, Bundle("car", CarScenes[scene + 1], "scene",
                                        translation, rotation,
                                        Vec3(1500, 1500, 1500), car))
                 w4 == [w3 EXCEPT !.cars =
                            (w2.next_entity :> (car @@ [translation |-> translation])) @@ @]
             IN  Count(w4, "cars_spawned")
        ELSE w1

\* XCars binding the cars of each X lane to the segment of the other
RECURSIVE XCars_Crossed(_, _, _, _, _)
XCars_Crossed(w, i, offset, seg, seg_reverse) ==
    IF i >= x_slots \/ ~Evaluated(w) THEN w
    ELSE LET w1 == MaybeSpawnCar(w, seg_reverse,
                       VAdd(Vec3(7500 + i * 5000, 0, 1500), offset), -270, i * x_step)
             w2 == MaybeSpawnCar(w1, seg,
                       VAdd(Vec3(7500 + i * 5000, 0, -1500), offset), -90, i * x_step)
         IN  XCars_Crossed(w2, i + 1, offset, seg, seg_reverse)

\* the `for i in 0..9` loop over the two X lanes, from iteration i on
RECURSIVE XCars(_, _, _, _, _)
XCars(w, i, offset, seg, seg_reverse) ==
    IF i >= x_slots \/ ~Evaluated(w) THEN w
    ELSE LET w1 == MaybeSpawnCar(w, seg,
                       VAdd(Vec3(7500 + i * 5000, 0, 1500), offset), -270, i * x_step)
             w2 == MaybeSpawnCar(w1, seg_reverse,
                       VAdd(Vec3(7500 + i * 5000, 0, -1500), offset), -90, i * x_step)
         IN  XCars(w2, i + 1, offset, seg, seg_reverse)

\* the `for i in 0..6` loop over the two Z lanes, from iteration i on
RECURSIVE ZCars(_, _, _, _, _)
ZCars(w, i, offset, seg, seg_reverse) ==
    IF i >= z_slots \/ ~Evaluated(w) THEN w
    ELSE LET w1 == MaybeSpawnCar(w, seg,
                       VAdd(Vec3(-1500, 0, 7500 + i * 5000), offset), 0, i * z_step)
             w2 == MaybeSpawnCar(w1, seg_reverse,
                       VAdd(Vec3(1500, 0, 7500 + i * 5000), offset), 180, i * z_step)
         IN  ZCars(w2, i + 1, offset, seg, seg_reverse)

\* spawn_roads_and_cars(commands, stats, rng, offset, assets)
SpawnRoadsAndCars(w, offset) ==
    LET a1 == Count(Spawn(w, Bundle("crossroad", "road-crossroad-path", "scene",
                                    offset, 0, ScaleOne, NoCar)), "road_segments")
        a2 == Count(Spawn(a1, Bundle("road_straight", "road-straight", "scene",
                                     VAdd(Vec3(27500, 0, 0), offset), 0,
                                     Vec3(45000, Unit, Unit), NoCar)), "road_segments")
        x_segment_entity == a2.next_entity
        a3 == SpawnSegment(a2, VAdd(Vec3(3000, 0, 1500), offset),
                               VAdd(Vec3(52000, 0, 1500), offset))
        x_segment_reverse_entity == a3.next_entity
        a4 == SpawnSegment(a3, VAdd(Vec3(52000, 0, -1500), offset),
                               VAdd(Vec3(3000, 0, -1500), offset))
        a5 == Count(Spawn(a4, Bundle("road_straight", "road-straight", "scene",
                                     VAdd(Vec3(0, 0, 20000), offset), 90,
                                     Vec3(30000, Unit, Unit), NoCar)), "road_segments")
        z_segment_entity == a5.next_entity
        a6 == SpawnSegment(a5, VAdd(Vec3(-1500, 0, 7500), offset),
                               VAdd(Vec3(-1500, 0, 32500), offset))
        z_segment_reverse_entity == a6.next_entity
        a7 == SpawnSegment(a6, VAdd(Vec3(1500, 0, 32500), offset),
                               VAdd(Vec3(1500, 0, 7500), offset))
        a8 == XCars(a7, 0, offset, x_segment_entity, x_segment_reverse_entity)
    IN  ZCars(a8, 0, offset, z_segment_entity, z_segment_reverse_entity)

---------------------------------------------------------------------------
(* Block content generators *)

\* random_building taking the material from the draw that gave the mesh
RandomBuilding_OneDraw(pool, s) ==
    [mesh |-> RandomRange(s, Len(pool.meshes)),
     material |-> RandomRange(s, Len(pool.materials)),
     rng |-> RngStep(RngStep(s))]

\* <Pool>::random_building: two independent draws, mesh first, then material
RandomBuilding(pool, s) ==
    [mesh |-> RandomRange(s, Len(pool.meshes)),
     material |-> RandomRange(RngStep(s), Len(pool.materials)),
     rng |-> RngStep(RngStep(s))]

\* commands.spawn((pool.random_building(&mut rng), Transform ..)); stats.<counter> += 1
SpawnBuilding(w, kind, pool, translation, rotation, counter) ==
    LET b == RandomBuilding(pool, w.rng)
        w1 == [w EXCEPT !.rng = b.rng]
    IN  Count(Spawn(w1, Bundle(kind, pool.meshes[b.mesh + 1],
                               pool.materials[b.material + 1],
                               translation, rotation, ScaleOne, NoCar)), counter)

\* a SceneRoot prop (tree, fence, path stones) with its Transform
SpawnScene(w, kind, scene, translation, rotation, scale) ==
    Spawn(w, Bundle(kind, scene, "scene", translation, rotation, scale, NoCar))

\* spawn_low_density: `for z in 0..=8`, from iteration i on
RECURSIVE LowTrees(_, _, _)
LowTrees(w, i, offset) ==
    IF i > 8 \/ ~Evaluated(w) THEN w
    ELSE LET w1 == Count(SpawnScene(w, "tree", "tree-small",
                             VAdd(Vec3(7500, 0, 7500 + i * 3000), offset), 0, ScaleOne),
                         "trees")
             w2 == Count(SpawnScene(w1, "tree", "tree-small",
                             VAdd(Vec3(47500, 0, 7500 + i * 3000), offset), 0, ScaleOne),
                         "trees")
         IN  LowTrees(w2, i + 1, offset)

\* spawn_low_density: `for i in 0..=6`, from iteration i on
RECURSIVE LowFences(_, _, _)
LowFences(w, i, offset) ==
    IF i > 6 \/ ~Evaluated(w) THEN w
    ELSE LowFences(SpawnScene(w, "fence", "fence",
                       VAdd(Vec3(27500, 0, 7500 + i * 4000), offset), 90, ScaleOne),
                   i + 1, offset)

\* spawn_low_density: `for x in 1..=2`, from iteration i on
RECURSIVE LowBuildings(_, _, _)
LowBuildings(w, i, offset) ==
    IF i > 2 \/ ~Evaluated(w) THEN w
    ELSE LET w1 == SpawnBuilding(w, "low_density_building", LowDensityBuildings,
                       VAdd(Vec3(i * 18000, 0, 12500), offset), 0,
                       "low_density_buildings")
             w2 == SpawnBuilding(w1, "low_density_building", LowDensityBuildings,
                       VAdd(Vec3(i * 18000, 0, 27500), offset), 180,
                       "low_density_buildings")
         IN  LowBuildings(w2, i + 1, offset)

\* SpawnLowDensity without the fence loop
SpawnLowDensity_NoFences(w, offset) ==
    LowBuildings(LowTrees(w, 0, offset), 1, offset)

SpawnLowDensity(w, offset) ==
    LowBuildings(LowFences(LowTrees(w, 0, offset), 0, offset), 1, offset)

\* MediumTrees choosing the species anew for every building slot
RECURSIVE MediumTrees_PerSlot(_, _, _, _, _)
MediumTrees_PerSlot(w, i, t, tree, offset) ==
    IF t > 1 \/ (i = 5 /\ t * 5000 = 5000) \/ ~Evaluated(w) THEN w
    ELSE LET w1 == Count(SpawnScene(w, "tree", Trees[(i % 2) + 1],
                             VAdd(Vec3(t * 5000 + i * 9000, 0, 17500), offset), 0,
                             ScaleOne), "trees")
             w2 == Count(SpawnScene(w1, "tree", Trees[(i % 2) + 1],
                             VAdd(Vec3(t * 5000 + i * 9000, 0, 22500), offset), 0,
                             ScaleOne), "trees")
         IN  MediumTrees_PerSlot(w2, i, t + 1, tree, offset)

\* spawn_medium_density: `for tree_x in 0..=1` of building slot i, from t on
RECURSIVE MediumTrees(_, _, _, _, _)
MediumTrees(w, i, t, tree, offset) ==
    IF t > 1 \/ (i = 5 /\ t * 5000 = 5000) \/ ~Evaluated(w) THEN w
    ELSE LET w1 == Count(SpawnScene(w, "tree", tree,
                             VAdd(Vec3(t * 5000 + i * 9000, 0, 17500), offset), 0,
                             ScaleOne), "trees")
             w2 == Count(SpawnScene(w1, "tree", tree,
                             VAdd(Vec3(t * 5000 + i * 9000, 0, 22500), offset), 0,
                             ScaleOne), "trees")
         IN  MediumTrees(w2, i, t + 1, tree, offset)

\* spawn_medium_density: `for x in 1..=5`, from iteration i on
RECURSIVE MediumSlots(_, _, _, _)
MediumSlots(w, i, tree, offset) ==
    IF i > 5 \/ ~Evaluated(w) THEN w
    ELSE LET w1 == SpawnBuilding(w, "medium_density_building", MediumDensityBuildings,
                       VAdd(Vec3(i * 9000, 0, Unit), offset), 0,
                       "medium_density_buildings")
             w2 == MediumTrees(w1, i, 0, tree, offset)
             w3 == SpawnBuilding(w2, "medium_density_building", MediumDensityBuildings,
                       VAdd(Vec3(i * 9000, 0, 30000), offset), 180,
                       "medium_density_buildings")
         IN  MediumSlots(w3, i + 1, tree, offset)

\* spawn_medium_density: `for x in 0..=10` (path), from iteration i on
RECURSIVE MediumPath(_, _, _)
MediumPath(w, i, offset) ==
    IF i > 10 \/ ~Evaluated(w) THEN w
    ELSE MediumPath(SpawnScene(w, "path_stones", "path-stones-long",
                        VAdd(Vec3(7500 + i * 4000, 200, 20000), offset), 90,
                        Vec3(Unit, 20000, Unit)),
                    i + 1, offset)

SpawnMediumDensity(w, trees, offset) ==
    LET tree == trees[RandomRange(w.rng, 2) + 1]
        w1 == [w EXCEPT !.rng = RngStep(@)]
    IN  MediumPath(MediumSlots(w1, 1, tree, offset), 0, offset)

\* spawn_high_density: `for x in 0..3`, from iteration i on
RECURSIVE SpawnHighDensityFrom(_, _, _)
SpawnHighDensityFrom(w, i, offset) ==
    IF i >= 3 \/ ~Evaluated(w) THEN w
    ELSE LET w1 == SpawnBuilding(w, "skyscraper", SkyscraperBuildings,
                       VAdd(Vec3(12500 + i * 15000, 0, 12500), offset), 0,
                       "skyscrapers")
             w2 == SpawnBuilding(w1, "skyscraper", SkyscraperBuildings,
                       VAdd(Vec3(12500 + i * 15000, 0, 27500), offset), 180,
                       "skyscrapers")
         IN  SpawnHighDensityFrom(w2, i + 1, offset)

\* SpawnHighDensity with the loop starting at 1
SpawnHighDensity_FromOne(w, offset) == SpawnHighDensityFrom(w, 1, offset)

SpawnHighDensity(w, offset) == SpawnHighDensityFrom(w, 0, offset)

---------------------------------------------------------------------------
(* setup_city *)

ground_tile_scale == Vec3(45000, Unit, 30000)

\* Vec3::new(0.5, -0.5005, 0.5) + ground_tile_scale / 2.0 + offset
GroundTileTranslation(offset) ==
    VAdd(VAdd(Vec3(5000, -5005, 5000),
              Vec3(ground_tile_scale[1] \div 2, ground_tile_scale[2] \div 2,
                   ground_tile_scale[3] \div 2)),
         offset)

\* SpawnGroundTile, but leaving grass blocks without a tile
SpawnGroundTile_NoGrass(w, material, offset) ==
    IF material = "grass_material" THEN w
    ELSE Spawn(w, Bundle("ground_tile", "tile-low", material,
                         GroundTileTranslation(offset), 0, ground_tile_scale, NoCar))

SpawnGroundTile(w, material, offset) ==
    Spawn(w, Bundle("ground_tile", "tile-low", material,
                    GroundTileTranslation(offset), 0, ground_tile_scale, NoCar))

\* noise.get([offset.x * noise_scale, offset.z * noise_scale, 0.0]) * 0.5 + 0.5
Density(nseed, offset) ==
    (NoiseGet(nseed, offset[1] * noise_scale, offset[3] * noise_scale) * 5000) \div Unit
        + 5000

\* Classify with inclusive thresholds
Classify_Inclusive(density) ==
    IF density <= rural THEN "Rural"
    ELSE IF density <= low_density THEN "LowDensity"
    ELSE IF density <= medium_density THEN "MediumDensity"
    ELSE "HighDensity"

\* the if / else-if chain of the closure: which generator is given the block
Classify(density) ==
    IF density < rural THEN "Rural"
    ELSE IF density < low_density THEN "LowDensity"
    ELSE IF density < medium_density THEN "MediumDensity"
    ELSE "HighDensity"

\* SpawnCityBlock making its noise source anew from the stream for each block
SpawnCityBlock_NoisePerBlock(w, offset) ==
    LET w0 == SpawnRoadsAndCars(w, offset)
        w1 == [w0 EXCEPT !.rng = RngStep(@)]
        class == Classify(Density(RandomU32(w0.rng), offset))
    IN  CASE class = "Rural" -> SpawnGroundTile(w1, "grass_material", offset)
          [] class = "LowDensity" ->
                SpawnLowDensity(SpawnGroundTile(w1, "grass_material", offset), offset)
          [] class = "MediumDensity" ->
                SpawnMediumDensity(SpawnGroundTile(w1, "default_material", offset),
                                   Trees, offset)
          [] OTHER ->
                SpawnHighDensity(SpawnGroundTile(w1, "default_material", offset), offset)

\* SpawnCityBlock without the rural branch: the chain starts at low_density
SpawnCityBlock_NoRural(w, offset) ==
    LET w1 == SpawnRoadsAndCars(w, offset)
        class == Classify(Density(w.noise, offset))
    IN  CASE class \in {"Rural", "LowDensity"} ->
                SpawnLowDensity(SpawnGroundTile(w1, "grass_material", offset), offset)
          [] class = "MediumDensity" ->
                SpawnMediumDensity(SpawnGroundTile(w1, "default_material", offset),
                                   Trees, offset)
          [] OTHER ->
                SpawnHighDensity(SpawnGroundTile(w1, "default_material", offset), offset)

\* SpawnCityBlock giving MediumDensity blocks the grass material
SpawnCityBlock_MediumGrass(w, offset) ==
    LET w1 == SpawnRoadsAndCars(w, offset)
        class == Classify(Density(w.noise, offset))
    IN  CASE class = "Rural" -> SpawnGroundTile(w1, "grass_material", offset)
          [] class = "LowDensity" ->
                SpawnLowDensity(SpawnGroundTile(w1, "grass_material", offset), offset)
          [] class = "MediumDensity" ->
                SpawnMediumDensity(SpawnGroundTile(w1, "grass_material", offset),
                                   Trees, offset)
          [] OTHER ->
                SpawnHighDensity(SpawnGroundTile(w1, "default_material", offset), offset)

\* the closure spawn_city_block(offset)
SpawnCityBlock(w, offset) ==
    LET w1 == SpawnRoadsAndCars(w, offset)
        class == Classify(Density(w.noise, offset))
    IN  CASE class = "Rural" -> SpawnGroundTile(w1, "grass_material", offset)
          [] class = "LowDensity" ->
                SpawnLowDensity(SpawnGroundTile(w1, "grass_material", offset), offset)
          [] class = "MediumDensity" ->
                SpawnMediumDensity(SpawnGroundTile(w1, "default_material", offset),
                                   Trees, offset)
          [] OTHER ->
                SpawnHighDensity(SpawnGroundTile(w1, "default_material", offset), offset)

\* Vec3::new(x as f32 * 5.5, 0.0, z as f32 * 4.0)
BlockOffset(bx, bz) == Vec3(bx * block_width, 0, bz * block_depth)

---------------------------------------------------------------------------
(* move_cars *)

\* MoveCar without the reset to 0
MoveCar_NoReset(car, segs, dt) ==
    IF car.road_segment \in DOMAIN segs
    THEN LET segment == segs[car.road_segment]
             distance == car.distance_traveled + (car.speed * dt) \div Unit
             new_pos == VAdd(segment.start, VScale(segment.direction, distance))
         IN  [car EXCEPT !.distance_traveled = distance, !.translation = new_pos]
    ELSE car

\* MoveCar wrapping the overshoot around instead of resetting to 0
MoveCar_Wrap(car, segs, dt) ==
    IF car.road_segment \in DOMAIN segs
    THEN LET segment == segs[car.road_segment]
             advanced == car.distance_traveled + (car.speed * dt) \div Unit
             distance == IF advanced > segment.length
                         THEN advanced - segment.length ELSE advanced
             new_pos == VAdd(segment.start, VScale(segment.direction, distance))
         IN  [car EXCEPT !.distance_traveled = distance, !.translation = new_pos]
    ELSE car

\* MoveCar leaving the car at the end of the segment once it gets there
MoveCar_Park(car, segs, dt) ==
    IF car.road_segment \in DOMAIN segs
    THEN LET segment == segs[car.road_segment]
             advanced == car.distance_traveled + (car.speed * dt) \div Unit
             distance == IF advanced > segment.length THEN segment.length ELSE advanced
             new_pos == VAdd(segment.start, VScale(segment.direction, distance))
         IN  [car EXCEPT !.distance_traveled = distance, !.translation = new_pos]
    ELSE car

\* MoveCar turning the car round at the end of the segment
MoveCar_Bounce(car, segs, dt) ==
    IF car.road_segment \in DOMAIN segs
    THEN LET segment == segs[car.road_segment]
             advanced == car.distance_traveled + (car.speed * dt) \div Unit
             over == advanced > segment.length
             distance == IF over THEN segment.length ELSE advanced
             new_pos == VAdd(segment.start, VScale(segment.direction, distance))
         IN  [car EXCEPT !.distance_traveled = distance, !.translation = new_pos,
                         !.speed = IF over THEN -@ ELSE @]
    ELSE car

\* MoveCar moving the car on from where it stands, along the direction
MoveCar_Integrated(car, segs, dt) ==
    IF car.road_segment \in DOMAIN segs
    THEN LET segment == segs[car.road_segment]
             advanced == car.distance_traveled + (car.speed * dt) \div Unit
             distance == IF advanced > segment.length THEN 0 ELSE advanced
             new_pos == VAdd(car.translation,
                             VScale(segment.direction, distance - car.distance_traveled))
         IN  [car EXCEPT !.distance_traveled = distance, !.translation = new_pos]
    ELSE car

\* the body of the `for (mut car, mut transform)` loop for one car
MoveCar(car, segs, dt) ==
    IF car.road_segment \in DOMAIN segs
    THEN LET segment == segs[car.road_segment]
             advanced == car.distance_traveled + (car.speed * dt) \div Unit
             distance == IF advanced > segment.length THEN 0 ELSE advanced
             \* start + direction * length * (distance / length)
             new_pos == VAdd(segment.start, VScale(segment.direction, distance))
         IN  [car EXCEPT !.distance_traveled = distance, !.translation = new_pos]
    ELSE car

\* MoveCars giving up on the whole frame when one segment is missing
MoveCars_AbortOnMissing(cs, segs, dt, enabled) ==
    IF ~enabled \/ (\E e \in DOMAIN cs : cs[e].road_segment \notin DOMAIN segs) THEN cs
    ELSE [e \in DOMAIN cs |-> MoveCar(cs[e], segs, dt)]

\* MoveCars without the early return on settings.move_cars
MoveCars_IgnoreSetting(cs, segs, dt, enabled) ==
    [e \in DOMAIN cs |-> MoveCar(cs[e], segs, dt)]

\* the system move_cars: nothing unless settings.move_cars, else every car
MoveCars(cs, segs, dt, enabled) ==
    IF ~enabled THEN cs
    ELSE [e \in DOMAIN cs |-> MoveCar(cs[e], segs, dt)]

---------------------------------------------------------------------------
(* State machine *)

World ==
    [rng |-> rng, noise |-> noise, next_entity |-> next_entity,
     placements |-> placements, segments |-> segments, cars |-> cars,
     stats |-> stats]

Seeds == FirstSeed .. (FirstSeed + NumSeeds - 1)

\* blocks of a grid of radius sz: `-size..=size` squared
GridCoords(sz) == (-sz .. sz) \X (-sz .. sz)

NumBlocks == (2 * size + 1) * (2 * size + 1)

\* LoopNext with exclusive upper bounds (`-size..size`)
LoopNext_Exclusive(lx, lz, sz) ==
    IF lz < sz - 1 THEN [x |-> lx, z |-> lz + 1, pc |-> "generating"]
    ELSE IF lx < sz - 1 THEN [x |-> lx + 1, z |-> -sz, pc |-> "generating"]
    ELSE [x |-> lx, z |-> lz, pc |-> "running"]

\* the loop header `for x in -size..=size { for z in -size..=size {`:
\* the position after the iteration at (lx, lz)
LoopNext(lx, lz, sz) ==
    IF lz < sz THEN [x |-> lx, z |-> lz + 1, pc |-> "generating"]
    ELSE IF lx < sz THEN [x |-> lx + 1, z |-> -sz, pc |-> "generating"]
    ELSE [x |-> lx, z |-> lz, pc |-> "running"]

\* the second run is not started
NoTwin == [pc |-> "off"]

\* no run of move_cars has begun
NoTick == [pending |-> {}, dt |-> 0, before |-> <<>>, enabled |-> FALSE, ran |-> FALSE]

InitWith(w, sz) ==
    /\ pc = "generating"
    /\ size = sz
    /\ x = -sz
    /\ z = -sz
    /\ rng = w.rng
    /\ noise = w.noise
    /\ next_entity = w.next_entity
    /\ placements = w.placements
    /\ segments = w.segments
    /\ cars = w.cars
    /\ stats = w.stats
    /\ settings_move_cars = FALSE
    /\ frame = 0
    /\ time_delta = 0
    /\ tick = NoTick

Init ==
    /\ \E seed \in Seeds, base \in 0 .. MaxForeign, sz \in 0 .. MaxSize :
          InitWith(NewWorld(seed, base), sz)
    /\ twin = NoTwin

SetWorld(w) ==
    /\ rng' = w.rng
    /\ next_entity' = w.next_entity
    /\ placements' = w.placements
    /\ segments' = w.segments
    /\ cars' = w.cars
    /\ stats' = w.stats

\* one iteration of setup_city's loop: spawn_city_block(offset of (x, z))
GenerateBlock ==
    /\ pc = "generating"
    /\ SetWorld(SpawnCityBlock(World, BlockOffset(x, z)))
    /\ x' = LoopNext(x, z, size).x
    /\ z' = LoopNext(x, z, size).z
    /\ pc' = LoopNext(x, z, size).pc
    /\ UNCHANGED <<size, noise, settings_move_cars, frame, time_delta, twin, tick>>

\* one run of the Update schedule: move_cars with the frame's delta
Update ==
    /\ pc = "running"
    /\ frame < MaxTicks
    /\ \E dt \in DtSet :
          /\ time_delta' = dt
          /\ cars' = MoveCars(cars, segments, dt, settings_move_cars)
    /\ frame' = frame + 1
    /\ UNCHANGED <<pc, size, x, z, rng, noise, next_entity, placements, segments,
                   stats, settings_move_cars, twin, tick>>

\* the "Move Cars" checkbox observer: settings.move_cars = change.value
ToggleMoveCars ==
    /\ pc = "running"
    /\ settings_move_cars' = ~settings_move_cars
    /\ UNCHANGED <<pc, size, x, z, rng, noise, next_entity, placements, segments,
                   cars, stats, frame, time_delta, twin, tick>>

Next == GenerateBlock \/ Update \/ ToggleMoveCars

Spec == Init /\ [][Next]_vars

\* setup_city alone: the Startup schedule, before any frame
SpecGen == Init /\ [][GenerateBlock]_vars

---------------------------------------------------------------------------
(* Two runs of setup_city, one after the other, with the same seed and     *)
(* grid size.  Each has its own world; the entity ids the other Startup    *)
(* systems took before setup_city differ from run to run.                  *)

InitTwin ==
    \E seed \in Seeds, base \in 0 .. MaxForeign, other \in 0 .. MaxForeign,
       sz \in 0 .. MaxSize :
          /\ InitWith(NewWorld(seed, base), sz)
          /\ twin = NewWorld(seed, other) @@ [x |-> -sz, z |-> -sz, pc |-> "generating"]

\* one loop iteration of the second run, started once the first has ended
GenerateBlockTwin ==
    /\ pc = "running"
    /\ twin.pc = "generating"
    /\ twin' = LoopNext(twin.x, twin.z, size)
                   @@ SpawnCityBlock(twin, BlockOffset(twin.x, twin.z))
    /\ UNCHANGED <<pc, size, x, z, rng, noise, next_entity, placements, segments,
                   cars, stats, settings_move_cars, frame, time_delta, tick>>

NextTwin == GenerateBlock \/ GenerateBlockTwin

SpecTwin == InitTwin /\ [][NextTwin]_vars

---------------------------------------------------------------------------
(* A one-block city in which the host may remove RoadSegment entities      *)
(* while cars still name them: the case `segments.get(car.road_segment)`   *)
(* answers with Err.                                                       *)

InitOneBlock ==
    /\ \E seed \in Seeds, base \in 0 .. MaxForeign : InitWith(NewWorld(seed, base), 0)
    /\ twin = NoTwin

DespawnSegment ==
    /\ pc = "running"
    /\ Cardinality(DOMAIN segments) > 4 * NumBlocks - MaxDespawned
    /\ \E e \in DOMAIN segments :
          segments' = [f \in DOMAIN segments \ {e} |-> segments[f]]
    /\ UNCHANGED <<pc, size, x, z, rng, noise, next_entity, placements, cars,
                   stats, settings_move_cars, frame, time_delta, twin, tick>>

NextDespawn == Next \/ DespawnSegment

SpecDespawn == InitOneBlock /\ [][NextDespawn]_vars

---------------------------------------------------------------------------
(* A one-block city in which a run of move_cars is taken one car at a time, *)
(* the cars in any order: Query::iter_mut promises no order.                *)

\* UpdateCar spreading the translation it computes to the cars of the same
\* segment (one Transform shared by the cars of a lane)
UpdateCar_SharedTransform(cs, e, segs, dt) ==
    LET moved == MoveCar(cs[e], segs, dt)
    IN  [f \in DOMAIN cs |->
            IF f = e THEN moved
            ELSE IF cs[f].road_segment = cs[e].road_segment
                 THEN [cs[f] EXCEPT !.translation = moved.translation]
                 ELSE cs[f]]

\* one iteration of `for (mut car, mut transform) in cars.iter_mut()`, on car e
UpdateCar(cs, e, segs, dt) == [cs EXCEPT ![e] = MoveCar(cs[e], segs, dt)]

\* move_cars is entered: the early return, or the loop over all cars begins
BeginTick ==
    /\ pc = "running"
    /\ frame < MaxOrderTicks
    /\ tick.pending = {}
    /\ \E dt \in DtSet :
          /\ time_delta' = dt
          /\ tick' = [pending |-> IF settings_move_cars THEN DOMAIN cars ELSE {},
                      dt |-> dt, before |-> cars,
                      enabled |-> settings_move_cars, ran |-> TRUE]
    /\ frame' = frame + 1
    /\ UNCHANGED <<pc, size, x, z, rng, noise, next_entity, placements, segments,
                   cars, stats, settings_move_cars, twin>>

\* the loop takes its next car, whichever the query yields
StepCar ==
    /\ tick.pending # {}
    /\ \E e \in tick.pending :
          /\ cars' = UpdateCar(cars, e, segments, tick.dt)
          /\ tick' = [tick EXCEPT !.pending = @ \ {e}]
    /\ UNCHANGED <<pc, size, x, z, rng, noise, next_entity, placements, segments,
                   stats, settings_move_cars, frame, time_delta, twin>>

\* the checkbox observer runs between systems, never inside move_cars' loop
ToggleBetweenTicks == tick.pending = {} /\ ToggleMoveCars

NextOrder == GenerateBlock \/ ToggleBetweenTicks \/ BeginTick \/ StepCar

SpecOrder == InitOneBlock /\ [][NextOrder]_vars

---------------------------------------------------------------------------
(* A one-block city whose frames, once "Move Cars" is set, keep coming, all *)
(* with the frame time of the first.                                        *)

\* the checkbox is set and stays set
EnableMoveCars == ~settings_move_cars /\ ToggleMoveCars

\* one run of the Update schedule with move_cars enabled; frame stops
\* counting at MaxTicks
FixedTick ==
    /\ pc = "running"
    /\ settings_move_cars
    /\ \E dt \in DtSet \ {0} :
          /\ frame = 0 \/ dt = time_delta
          /\ time_delta' = dt
          /\ cars' = MoveCars(cars, segments, dt, settings_move_cars)
    /\ frame' = IF frame < MaxTicks THEN frame + 1 ELSE frame
    /\ UNCHANGED <<pc, size, x, z, rng, noise, next_entity, placements, segments,
                   stats, settings_move_cars, twin, tick>>

NextLive == GenerateBlock \/ EnableMoveCars \/ FixedTick

\* the Update schedule runs every frame for as long as the app runs
SpecLive == InitOneBlock /\ [][NextLive]_vars /\ WF_vars(FixedTick)

---------------------------------------------------------------------------
(* Vocabulary of the properties *)

\* blocks whose loop iteration has run
Visited ==
    {b \in GridCoords(size) : pc = "running" \/ b[1] < x \/ (b[1] = x /\ b[2] < z)}

\* a bundle lies on the footprint of the block at offset o (blocks are 5.5 by
\* 4.0 apart; a block's bundles reach from -0.15 to 4.75 and 3.25 of its origin)
InBlock(p, o) ==
    /\ p.translation[1] - o[1] \in -2500 .. 52499
    /\ p.translation[3] - o[3] \in -2500 .. 37499

\* positions in ps of the bundles of kind `kind` on block b
OfKind(ps, b, kind) ==
    {k \in 1 .. Len(ps) : ps[k].kind = kind /\ InBlock(ps[k], BlockOffset(b[1], b[2]))}

\* positions in ps of all bundles of kind `kind`
AllOfKind(ps, kind) == {k \in 1 .. Len(ps) : ps[k].kind = kind}

ClassOf(b) == Classify(Density(noise, BlockOffset(b[1], b[2])))

\* the content generators that left bundles on block b
Generators(b) ==
    {g \in {"LowDensity", "MediumDensity", "HighDensity"} :
        \/ g = "LowDensity"
           /\ OfKind(placements, b, "low_density_building") \cup OfKind(placements, b, "fence") # {}
        \/ g = "MediumDensity"
           /\ OfKind(placements, b, "medium_density_building")
                \cup OfKind(placements, b, "path_stones") # {}
        \/ g = "HighDensity" /\ OfKind(placements, b, "skyscraper") # {}}

\* move_cars ran its loop in this step
MoveCarsRan == frame' = frame + 1 /\ settings_move_cars

Resolves(car) == car.road_segment \in DOMAIN segments

---------------------------------------------------------------------------
(* Properties *)

\* C1: every block the loop has processed has, whatever its density class,
\* exactly one crossroad (at the block origin), exactly two straight roads
\* and exactly one ground tile.
C1_RoadsAndGroundPerBlock ==
    \A b \in Visited :
        /\ Cardinality(OfKind(placements, b, "crossroad")) = 1
        /\ \A k \in OfKind(placements, b, "crossroad") :
              placements[k].translation = BlockOffset(b[1], b[2])
        /\ Cardinality(OfKind(placements, b, "road_straight")) = 2
        /\ Cardinality(OfKind(placements, b, "ground_tile")) = 1

\* C1 witness: a finished grid holding blocks of all four density classes
C1_Witness ==
    /\ pc = "running"
    /\ \A c \in {"Rural", "LowDensity", "MediumDensity", "HighDensity"} :
          \E b \in Visited : ClassOf(b) = c

\* C4: the class of a block follows the strict ascending thresholds 0.45,
\* 0.60, 0.70 of its density (exactly 0.45 is LowDensity), and exactly the
\* generator of that class ran on the block (none on a Rural block).
C4_ClassificationThresholds ==
    \A b \in Visited :
        LET d == Density(noise, BlockOffset(b[1], b[2]))
        IN  /\ d \in 0 .. 10000
            /\ d < 4500 => Generators(b) = {}
            /\ (4500 <= d /\ d < 6000) => Generators(b) = {"LowDensity"}
            /\ (6000 <= d /\ d < 7000) => Generators(b) = {"MediumDensity"}
            /\ d >= 7000 => Generators(b) = {"HighDensity"}

\* C4 witness: blocks of density exactly 0.45, 0.60 and 0.70 were generated
C4_Witness ==
    \A d \in {4500, 6000, 7000} :
        \E b \in Visited : Density(noise, BlockOffset(b[1], b[2])) = d

\* C8: a finished run over radius r visited each of the (2r+1)^2 coordinates
\* exactly once and produced (2r+1)^2 crossroads, 2(2r+1)^2 straight roads and
\* 4(2r+1)^2 RoadSegments; 9, 18 and 36 for r = 1.
C8_GridCounts ==
    pc = "running" =>
        /\ \A b \in GridCoords(size) :
              Cardinality({k \in AllOfKind(placements, "crossroad") :
                  placements[k].translation = BlockOffset(b[1], b[2])}) = 1
        /\ Cardinality(AllOfKind(placements, "crossroad")) = (2 * size + 1) * (2 * size + 1)
        /\ Cardinality(AllOfKind(placements, "road_straight"))
              = 2 * (2 * size + 1) * (2 * size + 1)
        /\ Cardinality(DOMAIN segments) = 4 * (2 * size + 1) * (2 * size + 1)
        /\ size = 1 =>
              /\ Cardinality(AllOfKind(placements, "crossroad")) = 9
              /\ Cardinality(AllOfKind(placements, "road_straight")) = 18
              /\ Cardinality(DOMAIN segments) = 36

\* C8 witness: a finished run over radius 1
C8_Witness == pc = "running" /\ size = 1 /\ Len(placements) > 9

\* C9: a LowDensity block holds exactly 18 trees (9 in each of two rows),
\* 7 fences, 4 buildings (at each of the two lateral slots one unrotated and
\* one rotated by 180 degrees) and one ground tile, of grass.
C9_LowDensityBlock ==
    \A b \in Visited :
        ClassOf(b) = "LowDensity" =>
            LET o == BlockOffset(b[1], b[2])
                trees == OfKind(placements, b, "tree")
                buildings == OfKind(placements, b, "low_density_building")
            IN  /\ Cardinality(trees) = 18
                /\ Cardinality({k \in trees : placements[k].translation[1] = o[1] + 7500}) = 9
                /\ Cardinality({k \in trees : placements[k].translation[1] = o[1] + 47500}) = 9
                /\ Cardinality(OfKind(placements, b, "fence")) = 7
                /\ Cardinality(buildings) = 4
                /\ \A slot \in {18000, 36000} :
                      /\ Cardinality({k \in buildings :
                            /\ placements[k].translation[1] = o[1] + slot
                            /\ placements[k].rotation = 0}) = 1
                      /\ Cardinality({k \in buildings :
                            /\ placements[k].translation[1] = o[1] + slot
                            /\ placements[k].rotation = 180}) = 1
                /\ Cardinality(OfKind(placements, b, "ground_tile")) = 1
                /\ \A k \in OfKind(placements, b, "ground_tile") :
                      placements[k].material = "grass_material"

\* C9 witness: two LowDensity blocks were generated whose first buildings differ
C9_Witness ==
    \E b1, b2 \in Visited :
        /\ ClassOf(b1) = "LowDensity"
        /\ ClassOf(b2) = "LowDensity"
        /\ \E k1 \in OfKind(placements, b1, "low_density_building"),
              k2 \in OfKind(placements, b2, "low_density_building") :
              /\ placements[k1].translation[1] - BlockOffset(b1[1], b1[2])[1]
                    = placements[k2].translation[1] - BlockOffset(b2[1], b2[2])[1]
              /\ placements[k1].rotation = placements[k2].rotation
              /\ placements[k1].mesh # placements[k2].mesh

---------------------------------------------------------------------------
(* What a run hands to its observers *)

RECURSIVE SortedIds(_)
SortedIds(S) ==
    IF S = {} THEN <<>>
    ELSE LET m == CHOOSE a \in S : \A b \in S : a <= b
         IN  <<m>> \o SortedIds(S \ {m})

\* the RoadSegments of world w in creation order
SegmentsInOrder(w) ==
    LET ids == SortedIds(DOMAIN w.segments)
    IN  [k \in 1 .. Len(ids) |-> w.segments[ids[k]]]

NoSegment == RoadSegmentNew(Vec3(0, 0, 0), Vec3(0, 0, 0))

\* a spawned bundle without its entity id: asset, transform and, for a car,
\* its Car component with the segment it is bound to
Emitted(w, p) ==
    [kind |-> p.kind, mesh |-> p.mesh, material |-> p.material,
     translation |-> p.translation, rotation |-> p.rotation, scale |-> p.scale,
     speed |-> p.car.speed, distance_traveled |-> p.car.distance_traveled,
     segment |-> IF p.kind = "car" /\ p.car.road_segment \in DOMAIN w.segments
                 THEN w.segments[p.car.road_segment] ELSE NoSegment]

\* the ordered placements, the road segments and the class of every block
Output(w, sz) ==
    [placements |-> [k \in 1 .. Len(w.placements) |-> Emitted(w, w.placements[k])],
     segments |-> SegmentsInOrder(w),
     classes |-> [b \in GridCoords(sz) |->
                     Classify(Density(w.noise, BlockOffset(b[1], b[2])))],
     stats |-> w.stats]

\* the sum update_stats_ui shows as "Total spawned mesh"
StatsTotal ==
    stats.cars_spawned + stats.low_density_buildings + stats.medium_density_buildings
        + stats.skyscrapers + stats.road_segments + stats.trees

Buildings ==
    AllOfKind(placements, "low_density_building")
        \cup AllOfKind(placements, "medium_density_building")
        \cup AllOfKind(placements, "skyscraper")

Roads == AllOfKind(placements, "crossroad") \cup AllOfKind(placements, "road_straight")

\* the bundle a car entity was spawned with
SpawnedAs(e) == placements[CHOOSE k \in 1 .. Len(placements) : placements[k].entity = e]

---------------------------------------------------------------------------
(* Properties, continued *)

\* C3: two runs with the same seed and the same grid size end with the same
\* ordered placements (asset and transform), the same cars and road segments
\* and the same density class for every block coordinate.
C3_Deterministic ==
    (pc = "running" /\ twin.pc = "running") =>
        Output(World, size) = Output([f \in DOMAIN World |-> twin[f]], size)

\* C3 witness: both runs have ended, their entity ids differ, cars were spawned
C3_Witness ==
    /\ pc = "running"
    /\ twin.pc = "running"
    /\ next_entity # twin.next_entity
    /\ size >= 1
    /\ stats.cars_spawned > 0

\* C7 as stated: after a complete run the building, road and tree placements
\* together number as many as the sum of the six SceneStats counters.
C7_Original ==
    pc = "running" =>
        Cardinality(Buildings) + Cardinality(Roads)
            + Cardinality(AllOfKind(placements, "tree")) = StatsTotal

\* C7 amended: after a complete run the car, building, road and tree
\* placements together number as many as the sum of the six counters.
C7_StatsMatchPlacements ==
    pc = "running" =>
        Cardinality(AllOfKind(placements, "car")) + Cardinality(Buildings)
            + Cardinality(Roads) + Cardinality(AllOfKind(placements, "tree")) = StatsTotal

\* C7 witness: a finished run that spawned cars, buildings and trees
C7_Witness ==
    /\ pc = "running"
    /\ stats.cars_spawned > 0
    /\ stats.trees > 0
    /\ stats.low_density_buildings + stats.medium_density_buildings + stats.skyscrapers > 0

\* C2 as stated: after move_cars ran, every car whose segment resolves has
\* 0 <= distance_traveled < segment.length.
C2_Original ==
    [][MoveCarsRan =>
          \A e \in DOMAIN cars :
              Resolves(cars[e]) =>
                  /\ 0 <= cars'[e].distance_traveled
                  /\ cars'[e].distance_traveled < segments[cars[e].road_segment].length]_vars

\* C2 amended: after move_cars ran, every car whose segment resolves has
\* 0 <= distance_traveled <= segment.length (the length itself is kept).
C2_DistanceWithinSegment ==
    [][MoveCarsRan =>
          \A e \in DOMAIN cars :
              Resolves(cars[e]) =>
                  /\ 0 <= cars'[e].distance_traveled
                  /\ cars'[e].distance_traveled <= segments[cars[e].road_segment].length]_vars

\* C2 witness: move_cars has placed a car at the very end of its segment, with
\* distance_traveled equal to the length (the car was not spawned there)
C2_Witness ==
    \E e \in DOMAIN cars :
        /\ Resolves(cars[e])
        /\ cars[e].distance_traveled = segments[cars[e].road_segment].length
        /\ cars[e].translation = segments[cars[e].road_segment].end
        /\ cars[e].translation # SpawnedAs(e).translation

\* C5: one run of move_cars sets the distance of a car whose segment resolves
\* to old + speed * dt when that does not exceed the length and to 0 when it
\* does; at speed 2.0 a segment of length 4.9 takes a car at distance 4.85 to
\* 0 in a frame of 0.1 s.
C5_TickRule ==
    [][MoveCarsRan =>
          \A e \in DOMAIN cars :
              Resolves(cars[e]) =>
                  LET sum == cars[e].distance_traveled
                                 + (cars[e].speed * time_delta') \div Unit
                      len == segments[cars[e].road_segment].length
                  IN  /\ sum <= len => cars'[e].distance_traveled = sum
                      /\ sum > len => cars'[e].distance_traveled = 0
                      /\ MoveCar([cars[e] EXCEPT !.distance_traveled = 48500],
                                 [segments EXCEPT ![cars[e].road_segment].length = 49000],
                                 1000).distance_traveled = 0]_vars

\* C5 witness: a car spawned with a distance above 0 is back at 0 after a
\* frame of 0.1 s: move_cars has reset it
C5_Witness ==
    /\ settings_move_cars
    /\ time_delta = 1000
    /\ \E e \in DOMAIN cars :
          /\ Resolves(cars[e])
          /\ SpawnedAs(e).car.distance_traveled > 0
          /\ cars[e].distance_traveled = 0

\* C6: when move_cars runs, a car whose road_segment does not resolve keeps
\* its distance and translation, no car is lost, and every car whose segment
\* resolves is updated by the rule.
C6_MissingSegmentSkipped ==
    [][MoveCarsRan =>
          /\ DOMAIN cars' = DOMAIN cars
          /\ \A e \in DOMAIN cars :
                IF Resolves(cars[e])
                THEN LET segment == segments[cars[e].road_segment]
                         sum == cars[e].distance_traveled
                                    + (cars[e].speed * time_delta') \div Unit
                         d == IF sum > segment.length THEN 0 ELSE sum
                     IN  /\ cars'[e].distance_traveled = d
                         /\ cars'[e].translation
                               = VAdd(segment.start, VScale(segment.direction, d))
                ELSE cars'[e] = cars[e]]_vars

\* C6 witness: a car on an X lane whose segment is gone is still where it was
\* spawned (move_cars never wrote it) while another car has been moved
C6_Witness ==
    \E e1, e2 \in DOMAIN cars :
        /\ ~Resolves(cars[e1])
        /\ SpawnedAs(e1).rotation \in {-270, -90}
        /\ cars[e1].translation = SpawnedAs(e1).translation
        /\ cars[e1].distance_traveled = SpawnedAs(e1).car.distance_traveled
        /\ Resolves(cars[e2])
        /\ cars[e2].distance_traveled # SpawnedAs(e2).car.distance_traveled

---------------------------------------------------------------------------
(* Road segments *)

\* the RoadSegment entities registered for block b
SegmentsOf(b) ==
    {e \in DOMAIN segments :
        InBlock([translation |-> segments[e].start], BlockOffset(b[1], b[2]))}

\* the endpoints of the RoadSegments of block b
LanesOf(b) == {<<segments[e].start, segments[e].end>> : e \in SegmentsOf(b)}

\* C11: every RoadSegment created by generation has length = |end - start| > 0
\* and a unit direction pointing from start to end; X lanes have length 4.9
\* and direction (+1,0,0) or (-1,0,0), Z lanes length 2.5 and direction
\* (0,0,+1) or (0,0,-1).
C11_SegmentInvariant ==
    \A e \in DOMAIN segments :
        LET g == segments[e]
        IN  /\ g.length > 0
            /\ g.length = Abs(g.end[1] - g.start[1]) + Abs(g.end[3] - g.start[3])
            /\ g.end[2] = g.start[2]
            /\ g.end = VAdd(g.start, VScale(g.direction, g.length))
            /\ \/ g.length = 49000 /\ g.direction \in {<<1, 0, 0>>, <<-1, 0, 0>>}
               \/ g.length = 25000 /\ g.direction \in {<<0, 0, 1>>, <<0, 0, -1>>}

\* C11 witness: segments of all four directions exist, away from the origin
C11_Witness ==
    /\ pc = "running"
    /\ size >= 1
    /\ \A d \in {<<1, 0, 0>>, <<-1, 0, 0>>, <<0, 0, 1>>, <<0, 0, -1>>} :
          \E e \in DOMAIN segments :
              segments[e].direction = d /\ segments[e].start[1] < 0 /\ segments[e].start[3] > 40000

\* C12: every processed block has exactly four RoadSegments, relative to its
\* offset: (0.3,0,0.15)->(5.2,0,0.15), (5.2,0,-0.15)->(0.3,0,-0.15),
\* (-0.15,0,0.75)->(-0.15,0,3.25) and (0.15,0,3.25)->(0.15,0,0.75); the two
\* lanes of an axis have opposite directions.
C12_FourSegmentsPerBlock ==
    /\ Cardinality(DOMAIN segments) = 4 * Cardinality(Visited)
    /\ \A b \in Visited :
          LET o == BlockOffset(b[1], b[2])
          IN  /\ Cardinality(SegmentsOf(b)) = 4
              /\ LanesOf(b) =
                    {<<VAdd(Vec3(3000, 0, 1500), o), VAdd(Vec3(52000, 0, 1500), o)>>,
                     <<VAdd(Vec3(52000, 0, -1500), o), VAdd(Vec3(3000, 0, -1500), o)>>,
                     <<VAdd(Vec3(-1500, 0, 7500), o), VAdd(Vec3(-1500, 0, 32500), o)>>,
                     <<VAdd(Vec3(1500, 0, 32500), o), VAdd(Vec3(1500, 0, 7500), o)>>}
              /\ \A e1, e2 \in SegmentsOf(b) :
                    (e1 # e2 /\ (segments[e1].direction[1] = 0) = (segments[e2].direction[1] = 0))
                        => VAdd(segments[e1].direction, segments[e2].direction) = <<0, 0, 0>>

\* C12 witness: the loop is in the middle of a grid, some blocks have their
\* four segments and the others have none yet
C12_Witness ==
    /\ pc = "generating"
    /\ Cardinality(Visited) >= 2
    /\ Cardinality(DOMAIN segments) = 4 * Cardinality(Visited)
    /\ \E b \in Visited : b[1] < 0 /\ Cardinality(SegmentsOf(b)) = 4

---------------------------------------------------------------------------
(* Lane slots *)

\* the lane slots of a block in the order their draws are made: slot i of the
\* X lanes, forward then opposite, for i = 0..8, then the same for the Z lanes
LaneSlots ==
    [k \in 1 .. 30 |->
        IF k <= 18
        THEN [axis |-> "x", forward |-> k % 2 = 1, i |-> (k - 1) \div 2]
        ELSE [axis |-> "z", forward |-> k % 2 = 1, i |-> (k - 19) \div 2]]

\* endpoints of the lane of a slot, relative to the block
LaneOfSlot(t) ==
    IF t.axis = "x"
    THEN IF t.forward THEN <<Vec3(3000, 0, 1500), Vec3(52000, 0, 1500)>>
                      ELSE <<Vec3(52000, 0, -1500), Vec3(3000, 0, -1500)>>
    ELSE IF t.forward THEN <<Vec3(-1500, 0, 7500), Vec3(-1500, 0, 32500)>>
                      ELSE <<Vec3(1500, 0, 32500), Vec3(1500, 0, 7500)>>

\* the slots that get a car when the block's draws start at stream state r:
\* one draw per slot, and one more for the scene of each car spawned
RECURSIVE SlotsWithCar(_, _)
SlotsWithCar(r, k) ==
    IF k > Len(LaneSlots) THEN <<>>
    ELSE IF RandomF32(r) > 7500
         THEN <<LaneSlots[k]>> \o SlotsWithCar(RngStep(RngStep(r)), k + 1)
         ELSE SlotsWithCar(RngStep(r), k + 1)

IsCar(p) == p.kind = "car"

\* C13: for each lane slot i (0..8 on X lanes, 0..5 on Z lanes) and each
\* direction one uniform draw is made and a car is spawned exactly when the
\* draw is above 0.75; the car is bound to the segment of that lane and
\* direction, has speed 2.0 and distance_traveled i * 0.55 (X) or i * 0.5 (Z).
C13_CarPerSlotDraw ==
    [][pc = "generating" =>
          LET o == BlockOffset(x, z)
              emitted == SubSeq(placements', Len(placements) + 1, Len(placements'))
              new_cars == SelectSeq(emitted, IsCar)
              expected == SlotsWithCar(rng, 1)
          IN  /\ Len(new_cars) = Len(expected)
              /\ \A k \in 1 .. Len(new_cars) :
                    LET c == new_cars[k].car
                        t == expected[k]
                    IN  /\ c.speed = 20000
                        /\ c.distance_traveled = t.i * (IF t.axis = "x" THEN 5500 ELSE 5000)
                        /\ c.road_segment \in DOMAIN segments' \ DOMAIN segments
                        /\ segments'[c.road_segment].start = VAdd(LaneOfSlot(t)[1], o)
                        /\ segments'[c.road_segment].end = VAdd(LaneOfSlot(t)[2], o)]_vars

\* C13 witness: blocks were generated with cars on both X lanes and both Z
\* lanes, one of them in the last X slot, and fewer cars than slots
C13_Witness ==
    /\ Visited # {}
    /\ stats.cars_spawned < Len(LaneSlots) * Cardinality(Visited)
    /\ \A rot \in {-270, -90, 0, 180} :
          \E k \in AllOfKind(placements, "car") : placements[k].rotation = rot
    /\ \E k \in AllOfKind(placements, "car") :
          placements[k].car.distance_traveled = 8 * x_step

---------------------------------------------------------------------------
(* Block contents by class *)

\* the density the closure computes for block b
DensityOf(b) == Density(noise, BlockOffset(b[1], b[2]))

\* bundles of block b of the given kind at local x, with the given rotation
AtSlot(b, kind, lx, rot) ==
    {k \in OfKind(placements, b, kind) :
        /\ placements[k].translation[1] = BlockOffset(b[1], b[2])[1] + lx
        /\ placements[k].rotation = rot}

\* C14: a MediumDensity block holds exactly 10 buildings (5 slots, a front one
\* and a back one rotated by 180 degrees), 18 trees (two pairs in slots 1 to 4,
\* one pair in slot 5), 11 path stones, and all its trees are of one species.
C14_MediumDensityBlock ==
    \A b \in Visited :
        (DensityOf(b) >= 6000 /\ DensityOf(b) < 7000) =>
            LET trees == OfKind(placements, b, "tree")
            IN  /\ Cardinality(OfKind(placements, b, "medium_density_building")) = 10
                /\ \A i \in 1 .. 5 :
                      /\ Cardinality(AtSlot(b, "medium_density_building", i * 9000, 0)) = 1
                      /\ Cardinality(AtSlot(b, "medium_density_building", i * 9000, 180)) = 1
                      /\ Cardinality(AtSlot(b, "tree", i * 9000, 0)) = 2
                      /\ Cardinality(AtSlot(b, "tree", i * 9000 + 5000, 0))
                            = (IF i = 5 THEN 0 ELSE 2)
                /\ Cardinality(trees) = 18
                /\ Cardinality(OfKind(placements, b, "path_stones")) = 11
                /\ Cardinality({placements[k].mesh : k \in trees}) = 1

\* C14 witness: two MediumDensity blocks were generated, one planted with the
\* small tree and one with the large tree
C14_Witness ==
    \E b1, b2 \in Visited :
        /\ Classify(DensityOf(b1)) = "MediumDensity"
        /\ Classify(DensityOf(b2)) = "MediumDensity"
        /\ \E k \in OfKind(placements, b1, "tree") : placements[k].mesh = "tree-small"
        /\ \E k \in OfKind(placements, b2, "tree") : placements[k].mesh = "tree-large"

\* C15: a HighDensity block holds exactly 6 skyscrapers, a front one and a
\* back one rotated by 180 degrees in each of three slots, and no tree, fence
\* or path stone; stats.skyscrapers grows by 6 for each such block.
C15_HighDensityBlock ==
    /\ stats.skyscrapers = 6 * Cardinality({b \in Visited : DensityOf(b) >= 7000})
    /\ \A b \in Visited :
          DensityOf(b) >= 7000 =>
              /\ Cardinality(OfKind(placements, b, "skyscraper")) = 6
              /\ \A i \in 0 .. 2 :
                    /\ Cardinality(AtSlot(b, "skyscraper", 12500 + i * 15000, 0)) = 1
                    /\ Cardinality(AtSlot(b, "skyscraper", 12500 + i * 15000, 180)) = 1
              /\ OfKind(placements, b, "tree") = {}
              /\ OfKind(placements, b, "fence") = {}
              /\ OfKind(placements, b, "path_stones") = {}

\* C15 witness: a HighDensity block whose front and back building of one slot
\* differ in mesh: the two were drawn separately
C15_Witness ==
    \E b \in Visited :
        /\ Classify(DensityOf(b)) = "HighDensity"
        /\ \E i \in 0 .. 2 :
              \E k1 \in AtSlot(b, "skyscraper", 12500 + i * 15000, 0),
                 k2 \in AtSlot(b, "skyscraper", 12500 + i * 15000, 180) :
                    placements[k1].mesh # placements[k2].mesh

\* the stream state after n draws (the test on r, never true, has each state
\* computed before the next)
RECURSIVE Advance(_, _)
Advance(r, n) == IF n = 0 \/ r < 0 THEN r ELSE Advance(RngStep(r), n - 1)

\* C16: the iteration of a Rural block emits, besides its road placements and
\* cars, only its ground tile, increments no building or tree counter, and
\* draws nothing from the stream beyond the draws of its lane slots and cars.
C16_RuralBlock ==
    [][(pc = "generating" /\ DensityOf(<<x, z>>) < 4500) =>
          LET emitted == SubSeq(placements', Len(placements) + 1, Len(placements'))
          IN  /\ \A k \in 1 .. Len(emitted) :
                    emitted[k].kind \in {"crossroad", "road_straight", "car", "ground_tile"}
              /\ Cardinality(AllOfKind(emitted, "ground_tile")) = 1
              /\ stats'.low_density_buildings = stats.low_density_buildings
              /\ stats'.medium_density_buildings = stats.medium_density_buildings
              /\ stats'.skyscrapers = stats.skyscrapers
              /\ stats'.trees = stats.trees
              /\ rng' = Advance(rng, Len(LaneSlots) + Len(SlotsWithCar(rng, 1)))]_vars

\* C16 witness: a Rural block was generated, with cars on its lanes, after a
\* block of another class
C16_Witness ==
    \E b1, b2 \in Visited :
        /\ Classify(DensityOf(b1)) = "Rural"
        /\ OfKind(placements, b1, "car") # {}
        /\ OfKind(placements, b1, "ground_tile") # {}
        /\ Classify(DensityOf(b2)) # "Rural"
        /\ (b2[1] < b1[1] \/ (b2[1] = b1[1] /\ b2[2] < b1[2]))

\* C17: the ground tile of a block is of the grass material exactly when the
\* block is Rural or LowDensity and of the default material exactly when it
\* is MediumDensity or HighDensity.
C17_GroundTileMaterial ==
    \A b \in Visited :
        \A k \in OfKind(placements, b, "ground_tile") :
            /\ placements[k].material = "grass_material" <=> DensityOf(b) < 6000
            /\ placements[k].material = "default_material" <=> DensityOf(b) >= 6000

\* C17 witness: the loop is under way and has laid grass tiles on a Rural and
\* a LowDensity block and default tiles on a MediumDensity and a HighDensity one
C17_Witness ==
    /\ pc = "generating"
    /\ \A class \in {"Rural", "LowDensity", "MediumDensity", "HighDensity"} :
          \E b \in Visited :
              /\ Classify(DensityOf(b)) = class
              /\ \E k \in OfKind(placements, b, "ground_tile") :
                    placements[k].material
                        = (IF class \in {"Rural", "LowDensity"}
                           THEN "grass_material" ELSE "default_material")

---------------------------------------------------------------------------
(* Ticks *)

\* the distance the transition rule gives car c in a frame of dt
RuleDistance(c, dt) ==
    LET sum == c.distance_traveled + (c.speed * dt) \div Unit
    IN  IF sum > segments[c.road_segment].length THEN 0 ELSE sum

\* the point at distance d along the segment of car c
PointAt(c, d) ==
    VAdd(segments[c.road_segment].start, VScale(segments[c.road_segment].direction, d))

\* C18: after a run of move_cars the translation of every car whose segment
\* resolves is segment.start + segment.direction * distance_traveled for its
\* new distance, so cars of one segment at equal distance are at one place.
C18_PositionDerived ==
    [][MoveCarsRan =>
          /\ \A e \in DOMAIN cars :
                Resolves(cars[e]) =>
                    cars'[e].translation = PointAt(cars[e], cars'[e].distance_traveled)
          /\ \A e1, e2 \in DOMAIN cars :
                (/\ Resolves(cars[e1])
                 /\ cars[e1].road_segment = cars[e2].road_segment
                 /\ cars'[e1].distance_traveled = cars'[e2].distance_traveled)
                    => cars'[e1].translation = cars'[e2].translation]_vars

\* C18 witness: a car has advanced without a reset and stands at the point
\* its distance gives, which is not where moving on from its spawn point by
\* the distance gained would have put it
C18_Witness ==
    \E e \in DOMAIN cars :
        LET born == SpawnedAs(e)
            d == cars[e].distance_traveled
        IN  /\ Resolves(cars[e])
            /\ d > born.car.distance_traveled
            /\ cars[e].translation = PointAt(cars[e], d)
            /\ cars[e].translation
                  # VAdd(born.translation,
                         VScale(segments[cars[e].road_segment].direction,
                                d - born.car.distance_traveled))

\* C19 as stated: on every tick after generation, the first included, every
\* car whose segment resolves is updated by the transition rule when dt > 0.
C19_Original ==
    [][(frame' = frame + 1 /\ time_delta' > 0) =>
          \A e \in DOMAIN cars :
              Resolves(cars[e]) =>
                  /\ cars'[e].distance_traveled = RuleDistance(cars[e], time_delta')
                  /\ cars'[e].distance_traveled # cars[e].distance_traveled
                  /\ cars'[e].translation = PointAt(cars[e], cars'[e].distance_traveled)]_vars

\* C19 amended: on every tick in which settings.move_cars is set, every car
\* whose segment resolves is updated by the transition rule when dt > 0; on a
\* tick in which it is not set (as at start) no car is changed.
C19_TickWhenEnabled ==
    [][frame' = frame + 1 =>
          IF settings_move_cars
          THEN \A e \in DOMAIN cars :
                  (Resolves(cars[e]) /\ time_delta' > 0) =>
                      /\ cars'[e].distance_traveled = RuleDistance(cars[e], time_delta')
                      /\ cars'[e].distance_traveled # cars[e].distance_traveled
                      /\ cars'[e].translation
                            = PointAt(cars[e], cars'[e].distance_traveled)
          ELSE cars' = cars]_vars

\* C19 witness: after an earlier frame, a frame with dt > 0 has run with
\* settings.move_cars set and a car is off its spawn distance and spawn point
C19_Witness ==
    /\ frame >= 2
    /\ settings_move_cars
    /\ time_delta > 0
    /\ cars # <<>>
    /\ \E e \in DOMAIN cars :
          /\ cars[e].distance_traveled # SpawnedAs(e).car.distance_traveled
          /\ cars[e].translation # SpawnedAs(e).translation

---------------------------------------------------------------------------
(* Order of the per-car updates *)

\* what the transition rule makes of car c in a frame of dt
RuleCar(c, dt) ==
    IF Resolves(c)
    THEN [c EXCEPT !.distance_traveled = RuleDistance(c, dt),
                   !.translation = PointAt(c, RuleDistance(c, dt))]
    ELSE c

\* C20: the update of one car changes that car alone, from its own distance
\* and its segment, and when the last car of a tick is done every car is what
\* the rule makes of its state at the start of the tick, in whatever order the
\* cars were taken.
C20_OrderIndependent ==
    [][(tick.pending # {} /\ tick'.pending # tick.pending) =>
          /\ \E e \in tick.pending :
                /\ tick'.pending = tick.pending \ {e}
                /\ cars'[e] = RuleCar(cars[e], tick.dt)
                /\ \A f \in DOMAIN cars \ {e} : cars'[f] = cars[f]
          /\ DOMAIN cars' = DOMAIN cars
          /\ tick'.pending = {} =>
                \A f \in DOMAIN cars : cars'[f] = RuleCar(tick.before[f], tick.dt)]_vars

\* C20 witness: in a tick with dt > 0 a car has been updated while a car
\* spawned before it, on the same segment, is still waiting for its turn
C20_Witness ==
    /\ tick.dt > 0
    /\ \E e1 \in tick.pending, e2 \in DOMAIN cars \ tick.pending :
          /\ e1 < e2
          /\ cars[e1].road_segment = cars[e2].road_segment
          /\ cars[e2] # tick.before[e2]

---------------------------------------------------------------------------
(* Asset pools *)

ToSet(seq) == {seq[i] : i \in DOMAIN seq}

BuildingPools ==
    [low_density_building |-> LowDensityBuildings,
     medium_density_building |-> MediumDensityBuildings,
     skyscraper |-> SkyscraperBuildings]

\* C21: every index drawn is within its pool: the car index is below the
\* number of car scenes, a building's mesh and material index come from two
\* successive draws and are below the numbers of meshes and of materials of
\* its pool, and the tree index is below the number of trees.
C21_IndicesInBounds ==
    /\ \A k \in 1 .. Len(placements) :
          LET p == placements[k]
          IN  /\ p.kind = "car" => p.mesh \in ToSet(CarScenes)
              /\ p.kind = "tree" => p.mesh \in ToSet(Trees)
              /\ p.kind \in DOMAIN BuildingPools =>
                    /\ p.mesh \in ToSet(BuildingPools[p.kind].meshes)
                    /\ p.material \in ToSet(BuildingPools[p.kind].materials)
    /\ \A k \in 0 .. DrawsAhead :
          LET s == Advance(rng, k)
              first == RngStep(s)
              second == RngStep(first)
          IN  /\ RandomCar(s) \in 0 .. Len(CarScenes) - 1
              /\ RandomRange(s, 2) \in 0 .. Len(Trees) - 1
              /\ \A kind \in DOMAIN BuildingPools :
                    LET pool == BuildingPools[kind]
                        b == RandomBuilding(pool, s)
                    IN  /\ b.mesh \in 0 .. Len(pool.meshes) - 1
                        /\ b.material \in 0 .. Len(pool.materials) - 1
                        /\ b.mesh = (first * Len(pool.meshes)) \div 65536
                        /\ b.material = (second * Len(pool.materials)) \div 65536
                        /\ b.rng = second

\* C21 witness: the last car scene, the last tree and the last mesh and last
\* material of a building pool have been drawn, and two buildings of one pool
\* share their mesh but not their material
C21_Witness ==
    /\ \E k \in AllOfKind(placements, "car") :
          placements[k].mesh = CarScenes[Len(CarScenes)]
    /\ \E k \in AllOfKind(placements, "tree") : placements[k].mesh = Trees[Len(Trees)]
    /\ \E kind \in DOMAIN BuildingPools :
          LET pool == BuildingPools[kind]
          IN  /\ \E k \in AllOfKind(placements, kind) :
                    placements[k].mesh = pool.meshes[Len(pool.meshes)]
              /\ \E k \in AllOfKind(placements, kind) :
                    placements[k].material = pool.materials[Len(pool.materials)]
              /\ \E k1, k2 \in AllOfKind(placements, kind) :
                    /\ placements[k1].mesh = placements[k2].mesh
                    /\ placements[k1].material # placements[k2].material

---------------------------------------------------------------------------
(* Cars and their segments *)

\* the lane a car bundle was spawned on, told by its rotation
LaneOfCar(p) ==
    LaneOfSlot([axis |-> IF p.rotation \in {-270, -90} THEN "x" ELSE "z",
                forward |-> p.rotation \in {-270, 0}])

\* C22: no tick changes the speed or the road_segment of a car, nor any
\* RoadSegment: they are what they were at creation.
C22_ImmutableAfterCreation ==
    [][frame' = frame + 1 =>
          /\ segments' = segments
          /\ DOMAIN cars' = DOMAIN cars
          /\ \A e \in DOMAIN cars :
                /\ cars'[e].speed = cars[e].speed
                /\ cars'[e].road_segment = cars[e].road_segment
                /\ cars'[e].speed = SpawnedAs(e).car.speed
                /\ cars'[e].road_segment = SpawnedAs(e).car.road_segment]_vars

\* C22 witness: after three frames a car that has been reset to 0 still has
\* the speed and the segment it was spawned with
C22_Witness ==
    /\ frame >= 3
    /\ \E e \in DOMAIN cars :
          /\ SpawnedAs(e).car.distance_traveled > 0
          /\ cars[e].distance_traveled = 0
          /\ cars[e].speed = car_speed
          /\ cars[e].road_segment = SpawnedAs(e).car.road_segment

\* C23: every car is bound to a RoadSegment created for its own block, the
\* one of the lane and direction of its slot, and the reference resolves in
\* every state, ticks included: no segment is ever removed.
C23_CarBoundToOwnBlock ==
    /\ Cardinality(DOMAIN segments) = 4 * Cardinality(Visited)
    /\ \A e \in DOMAIN cars : Resolves(cars[e])
    /\ \A k \in AllOfKind(placements, "car") :
          LET p == placements[k]
          IN  /\ p.entity \in DOMAIN cars
              /\ cars[p.entity].road_segment = p.car.road_segment
              /\ \E b \in Visited : InBlock(p, BlockOffset(b[1], b[2]))
              /\ \A b \in Visited :
                    InBlock(p, BlockOffset(b[1], b[2])) =>
                        /\ p.car.road_segment \in DOMAIN segments
                        /\ segments[p.car.road_segment].start
                              = VAdd(LaneOfCar(p)[1], BlockOffset(b[1], b[2]))
                        /\ segments[p.car.road_segment].end
                              = VAdd(LaneOfCar(p)[2], BlockOffset(b[1], b[2]))

\* C23 witness: frames have run on a grid of several blocks and cars of two
\* different blocks have been moved along their segments
C23_Witness ==
    /\ frame >= 1
    /\ size >= 1
    /\ \E k1, k2 \in AllOfKind(placements, "car") :
          /\ \E b \in Visited :
                /\ InBlock(placements[k1], BlockOffset(b[1], b[2]))
                /\ ~InBlock(placements[k2], BlockOffset(b[1], b[2]))
          /\ cars[placements[k1].entity].translation # placements[k1].translation
          /\ cars[placements[k2].entity].translation # placements[k2].translation

---------------------------------------------------------------------------
(* Classification and the stream *)

\* draws a content generator makes: two per building, one for the tree
ContentDraws ==
    [Rural |-> 0, LowDensity |-> 8, MediumDensity |-> 21, HighDensity |-> 12]

\* the class whose generator made the bundles ps
ClassSeen(ps) ==
    IF AllOfKind(ps, "low_density_building") # {} THEN "LowDensity"
    ELSE IF AllOfKind(ps, "medium_density_building") # {} THEN "MediumDensity"
    ELSE IF AllOfKind(ps, "skyscraper") # {} THEN "HighDensity"
    ELSE "Rural"

\* C24: the class of a block is a function of the noise seed, which is the
\* first value drawn from the stream and never changes, and of the block's
\* offset: classifying draws nothing, so the stream advances by the draws of
\* the lane slots, the cars and the content generator alone.
C24_ClassFromNoiseAndOffset ==
    [][pc = "generating" =>
          /\ noise' = noise
          /\ \E seed \in Seeds : noise = RngStep(SeedFromU64(seed))
          /\ LET d == DensityOf(<<x, z>>)
                 class == IF d < 4500 THEN "Rural"
                          ELSE IF d < 6000 THEN "LowDensity"
                          ELSE IF d < 7000 THEN "MediumDensity"
                          ELSE "HighDensity"
                 emitted == SubSeq(placements', Len(placements) + 1, Len(placements'))
             IN  /\ ClassSeen(emitted) = class
                 /\ rng' = Advance(rng, Len(LaneSlots) + Len(SelectSeq(emitted, IsCar))
                                            + ContentDraws[class])]_vars

\* C24 witness: on a grid of radius 2 the centre block, the only block of a
\* grid of radius 0, has been generated as the 13th, after the draws of twelve
\* blocks, and is not Rural
C24_Witness ==
    /\ size = 2
    /\ x = 0
    /\ z = 1
    /\ stats.cars_spawned > 0
    /\ Generators(<<0, 0>>) # {}
    /\ \E b \in Visited : Generators(b) # Generators(<<0, 0>>)

---------------------------------------------------------------------------
(* Car counts *)

\* the car bundles of block b on the lane told by rotation rot
CarsOnLane(b, rot) == {k \in OfKind(placements, b, "car") : placements[k].rotation = rot}

\* C25: a block has at most 9 cars on each X lane, at most 6 on each Z lane,
\* one per slot, at most 30 in all, and stats.cars_spawned is the number of
\* car placements and of Car entities.
C25_CarCounts ==
    /\ stats.cars_spawned = Cardinality(AllOfKind(placements, "car"))
    /\ stats.cars_spawned = Cardinality(DOMAIN cars)
    /\ DOMAIN cars = {placements[k].entity : k \in AllOfKind(placements, "car")}
    /\ \A b \in Visited :
          /\ Cardinality(OfKind(placements, b, "car")) <= 30
          /\ \A rot \in {-270, -90} : Cardinality(CarsOnLane(b, rot)) <= 9
          /\ \A rot \in {0, 180} : Cardinality(CarsOnLane(b, rot)) <= 6
          /\ \A k1, k2 \in OfKind(placements, b, "car") :
                placements[k1].translation = placements[k2].translation => k1 = k2

\* C25 witness: a finished grid of several blocks in which one lane holds
\* three cars or more and another lane none
C25_Witness ==
    /\ pc = "running"
    /\ size >= 1
    /\ \E b \in Visited, rot \in {-270, -90, 0, 180} : Cardinality(CarsOnLane(b, rot)) >= 3
    /\ \E b \in Visited, rot \in {-270, -90, 0, 180} : CarsOnLane(b, rot) = {}

---------------------------------------------------------------------------
(* Laps *)

\* car e was spawned in lane slot t
SpawnedInSlot(e, t) ==
    LET born == SpawnedAs(e)
    IN  /\ (born.rotation \in {-270, -90}) = (t.axis = "x")
        /\ (born.rotation \in {-270, 0}) = t.forward
        /\ born.car.distance_traveled = t.i * (IF t.axis = "x" THEN x_step ELSE z_step)

\* C26: with move_cars enabled and frames of one dt > 0 that keep coming,
\* the distance_traveled of every car whose segment resolves is 0 again and
\* again: no car stays above 0 for ever.
C26_ResetInfinitelyOften ==
    \A k \in 1 .. 30 :
        []<>((pc = "running" /\ settings_move_cars) =>
                \A e \in DOMAIN cars :
                    (Resolves(cars[e]) /\ SpawnedInSlot(e, LaneSlots[k]))
                        => cars[e].distance_traveled = 0)

\* C26 witness: with frames of one dt > 0 a car has been reset to 0 and
\* another has been reset and has advanced again, short of its spawn distance
C26_Witness ==
    /\ settings_move_cars
    /\ frame >= 3
    /\ time_delta > 0
    /\ \E e1, e2 \in DOMAIN cars :
          /\ SpawnedAs(e1).car.distance_traveled > 0
          /\ cars[e1].distance_traveled = 0
          /\ cars[e2].distance_traveled > 0
          /\ cars[e2].distance_traveled < SpawnedAs(e2).car.distance_traveled

====
